---------------------------- MODULE Spec2Model ----------------------------
(***************************************************************************)
(* simple-router: <Link>, <Router>, <Page> and the usePopstate hook.       *)
(*                                                                         *)
(* The state is the session history of the document (entries and the       *)
(* index of the current one), the list of "popstate" listeners registered  *)
(* on window, the React state of each <Link> (isCurrent) and of the        *)
(* <Router> (pathname), the forwarded ref contentRef, the element that     *)
(* has keyboard focus, and the position of the event that is being         *)
(* processed.  The browser runs one event at a time: a click or a          *)
(* traversal changes the history and starts a dispatch; the registered     *)
(* listeners then run one after the other; React commits the re-render     *)
(* when the event is over.                                                 *)
(*                                                                         *)
(* Link targets are absolute pathnames without query or fragment (the      *)
(* hrefs of App.tsx), for which the URL that pushState resolves has the    *)
(* href itself as its pathname.  A mount (render and effect) and an        *)
(* unmount (effect cleanup) of a <Link> are one step each.                 *)
(*                                                                         *)
(* Spec has the activations, the traversals, the dispatches and the mounts *)
(* and unmounts between events; SpecApp only what App.tsx itself does;     *)
(* SpecFlush adds unmounts that React commits while a dispatch runs;       *)
(* SpecHook adds renders that give a <Link> another href and handler.      *)
(***************************************************************************)
EXTENDS Integers, Sequences, FiniteSets

\* Bound on the number of session history entries.
MaxDepth == 3

\* Pathnames: the two routes of App.tsx and one pathname no route has.
Paths == {"/", "/about", "/x"}

\* The <Link> instances of App.tsx and their href props.
Links == {"L1", "L2"}

\* The href props App.tsx gives them.
AppHref(l) == IF l = "L1" THEN "/" ELSE "/about"

\* The pathnames an href prop takes.
LinkTargets == {"/", "/about"}

\* Titles of the route entries of App.tsx.
Title(p) == IF p = "/" THEN "Home" ELSE "About"

\* The value of a property lookup that finds nothing.
Undefined == [title |-> "undefined"]

\* The route tables a <Router> is given: the type requires the "/" key.
RouteTables ==
  { [p \in keys |-> [title |-> Title(p)]] : keys \in {{"/"}, {"/", "/about"}} }

VARIABLES
  entries,     \* session history: sequence of [pathname, state]
  idx,         \* index of the current session history entry
  listeners,   \* "popstate" listeners of window, in registration order
  mounted,     \* the <Link> instances that are mounted
  isCurrent,   \* React state of each <Link>
  routes,      \* the routes prop of <Router>
  pathname,    \* React state of <Router>
  rendered,    \* the route entry <Router> rendered last
  contentRef,  \* contentRef.current: "null" or the heading "h1"
  focus,       \* document.activeElement: "body", "link" or "h1"
  pc,          \* "idle", or "dispatch" while listeners are being invoked
  queue,       \* listeners still to be invoked by the running dispatch
  evt,         \* the event being processed, or the last one processed,
               \* with history.length as it was when the event began
  signals,     \* number of popstate dispatches made for evt
  thrown,      \* a listener of the running dispatch threw
  linkHref,    \* the href prop of each <Link>
  snapshot,    \* the listeners registered when the last dispatch began
  invoked      \* the listeners the last dispatch has invoked, in order

vars == << entries, idx, listeners, mounted, isCurrent, routes, pathname,
           rendered, contentRef, focus, pc, queue, evt, signals, thrown,
           linkHref, snapshot, invoked >>

\* The href prop of <Link> l.
Href(l) == linkHref[l]

\* The handlers in a list of listeners.
Handlers(s) == { s[k] : k \in 1..Len(s) }

\* window.location.pathname
LivePathname == entries[idx].pathname

\* window.history.state
HistoryState == entries[idx].state

-----------------------------------------------------------------------------
\* window.history.pushState({}, "", url): the entries after the current one
\* are dropped and a new current entry is appended.
PushState(h, i, url) ==
  [entries |-> Append(SubSeq(h, 1, i), [pathname |-> url, state |-> "obj"]),
   idx |-> i + 1]

\* window.history.replaceState({}, "", url)
ReplaceState(h, i, url) ==
  [entries |-> [h EXCEPT ![i] = [pathname |-> url, state |-> "obj"]],
   idx |-> i]

\* The branch handleOnClick takes.
Decision(cur) == IF cur THEN "replace" ELSE "push"

\* handleOnClick without the replaceState branch.
HandleOnClickNoReplace(h, i, href, cur) ==
  IF cur THEN [entries |-> h, idx |-> i] ELSE PushState(h, i, href)

\* handleOnClick that always calls pushState.
HandleOnClickAlwaysPush(h, i, href, cur) == PushState(h, i, href)

\* handleOnClick with the two branches exchanged.
HandleOnClickSwapped(h, i, href, cur) ==
  IF cur THEN PushState(h, i, href) ELSE ReplaceState(h, i, href)

\* The history calls of handleOnClick.
HandleOnClick(h, i, href, cur) ==
  IF cur THEN ReplaceState(h, i, href) ELSE PushState(h, i, href)

\* A <Link> that starts with isCurrent false.
InitIsCurrentFalse(href, live) == FALSE

\* href === window.location.pathname, the initial state of a <Link>.
InitIsCurrent(href, live) == href = live

\* handlePopstate of <Link>: setIsCurrent(href === window.location.pathname)
LinkHandlePopstate(href, live) == href = live

\* handlePopstate of <Router> without the test of window.history.state.
RouterHandlePopstateNoNullCheck(state, live, pn, ref, foc) ==
  IF ref = "null"
    THEN [pathname |-> live, focus |-> foc, threw |-> TRUE]
    ELSE [pathname |-> live, focus |-> ref, threw |-> FALSE]

\* handlePopstate of <Router> without the call of focus().
RouterHandlePopstateNoFocus(state, live, pn, ref, foc) ==
  IF state # "null"
    THEN [pathname |-> live, focus |-> foc, threw |-> ref = "null"]
    ELSE [pathname |-> pn, focus |-> foc, threw |-> FALSE]

\* handlePopstate of <Router> with contentRef.current?.focus().
RouterHandlePopstateSilent(state, live, pn, ref, foc) ==
  IF state # "null"
    THEN [pathname |-> live, focus |-> IF ref = "null" THEN foc ELSE ref,
          threw |-> FALSE]
    ELSE [pathname |-> pn, focus |-> foc, threw |-> FALSE]

\* handlePopstate of <Router> with the test of contentRef.current first.
RouterHandlePopstateCheckFirst(state, live, pn, ref, foc) ==
  IF state # "null"
    THEN IF ref = "null"
           THEN [pathname |-> pn, focus |-> foc, threw |-> TRUE]
           ELSE [pathname |-> live, focus |-> ref, threw |-> FALSE]
    ELSE [pathname |-> pn, focus |-> foc, threw |-> FALSE]

\* handlePopstate of <Router>
RouterHandlePopstate(state, live, pn, ref, foc) ==
  IF state # "null"
    THEN IF ref = "null"
           THEN [pathname |-> live, focus |-> foc, threw |-> TRUE]
           ELSE [pathname |-> live, focus |-> ref, threw |-> FALSE]
    ELSE [pathname |-> pn, focus |-> foc, threw |-> FALSE]

\* routes[pathname]
Lookup(tbl, p) == IF p \in DOMAIN tbl THEN tbl[p] ELSE Undefined

\* routes[pathname] without the fallback.
ResolveNoFallback(tbl, p) == Lookup(tbl, p)

\* routes[pathname] || routes["/"]
Resolve(tbl, p) ==
  IF Lookup(tbl, p) # Undefined THEN Lookup(tbl, p) ELSE Lookup(tbl, "/")

\* A cleanup that does not remove the listener.
RemoveNothing(s, x) == s

\* removeEventListener: the sequence without handler x
RECURSIVE Remove(_, _)
Remove(s, x) ==
  IF s = << >> THEN << >>
  ELSE IF Head(s) = x THEN Remove(Tail(s), x)
  ELSE << Head(s) >> \o Remove(Tail(s), x)

-----------------------------------------------------------------------------
Init ==
  \E p0 \in Paths, tbl \in RouteTables :
    /\ entries = << [pathname |-> p0, state |-> "null"] >>
    /\ idx = 1
    /\ listeners = << "L1", "L2", "router" >>
    /\ mounted = Links
    /\ isCurrent = [l \in Links |-> InitIsCurrent(AppHref(l), p0)]
    /\ routes = tbl
    /\ pathname = p0
    /\ rendered = Resolve(tbl, p0)
    /\ contentRef = "h1"
    /\ focus = "body"
    /\ pc = "idle"
    /\ queue = << >>
    /\ evt = [kind |-> "load", link |-> "none", decision |-> "none", len |-> 1]
    /\ signals = 0
    /\ thrown = FALSE
    /\ linkHref = [l \in Links |-> AppHref(l)]
    /\ snapshot = << >>
    /\ invoked = << >>

\* A user activates <Link> l: handleOnClick up to the point where
\* dispatchEvent starts to invoke the listeners.
Click(l) ==
  /\ pc = "idle"
  /\ l \in mounted
  /\ (isCurrent[l] \/ idx < MaxDepth)
  /\ LET r == HandleOnClick(entries, idx, Href(l), isCurrent[l]) IN
       /\ entries' = r.entries
       /\ idx' = r.idx
  /\ evt' = [kind |-> "click", link |-> l, decision |-> Decision(isCurrent[l]),
             len |-> Len(entries)]
  /\ focus' = "link"
  /\ signals' = 1
  /\ queue' = listeners
  /\ snapshot' = listeners
  /\ invoked' = << >>
  /\ thrown' = FALSE
  /\ pc' = "dispatch"
  /\ UNCHANGED << listeners, mounted, isCurrent, routes, pathname, rendered,
                  contentRef, linkHref >>

\* The browser traverses the session history by d and fires popstate.
Traverse(d, kind) ==
  /\ pc = "idle"
  /\ idx + d \in 1..Len(entries)
  /\ idx' = idx + d
  /\ evt' = [kind |-> kind, link |-> "none", decision |-> "none",
             len |-> Len(entries)]
  /\ signals' = 1
  /\ queue' = listeners
  /\ snapshot' = listeners
  /\ invoked' = << >>
  /\ thrown' = FALSE
  /\ pc' = "dispatch"
  /\ UNCHANGED << entries, listeners, mounted, isCurrent, routes, pathname,
                  rendered, contentRef, focus, linkHref >>

Back == Traverse(-1, "back")

Forward == Traverse(1, "forward")

\* Some browsers fire popstate once the page has loaded.
HostLoadPopstate ==
  /\ pc = "idle"
  /\ evt.kind = "load"
  /\ evt' = [kind |-> "hostload", link |-> "none", decision |-> "none",
             len |-> Len(entries)]
  /\ signals' = 1
  /\ queue' = listeners
  /\ snapshot' = listeners
  /\ invoked' = << >>
  /\ thrown' = FALSE
  /\ pc' = "dispatch"
  /\ UNCHANGED << entries, idx, listeners, mounted, isCurrent, routes,
                  pathname, rendered, contentRef, focus, linkHref >>

\* A listener of <Router> that calls stopImmediatePropagation().
DeliverRouterStops ==
  /\ pc = "dispatch"
  /\ queue # << >>
  /\ Head(queue) = "router"
  /\ LET r == RouterHandlePopstate(HistoryState, LivePathname, pathname,
                                   contentRef, focus) IN
       /\ pathname' = r.pathname
       /\ focus' = r.focus
       /\ thrown' = (thrown \/ r.threw)
  /\ queue' = << >>
  /\ invoked' = Append(invoked, "router")
  /\ UNCHANGED << entries, idx, listeners, mounted, isCurrent, routes,
                  rendered, contentRef, pc, evt, signals, linkHref, snapshot >>

\* A dispatch that ends when the listener of <Router> throws.
DeliverRouterAborts ==
  /\ pc = "dispatch"
  /\ queue # << >>
  /\ Head(queue) = "router"
  /\ LET r == RouterHandlePopstate(HistoryState, LivePathname, pathname,
                                   contentRef, focus) IN
       /\ pathname' = r.pathname
       /\ focus' = r.focus
       /\ thrown' = (thrown \/ r.threw)
       /\ queue' = IF r.threw THEN << >> ELSE Tail(queue)
  /\ invoked' = Append(invoked, "router")
  /\ UNCHANGED << entries, idx, listeners, mounted, isCurrent, routes,
                  rendered, contentRef, pc, evt, signals, linkHref, snapshot >>

\* A listener of <Router> that rewrites the URL of a pathname without route.
DeliverRouterRedirects ==
  /\ pc = "dispatch"
  /\ queue # << >>
  /\ Head(queue) = "router"
  /\ LET r == RouterHandlePopstate(HistoryState, LivePathname, pathname,
                                   contentRef, focus) IN
       /\ pathname' = r.pathname
       /\ focus' = r.focus
       /\ thrown' = (thrown \/ r.threw)
  /\ entries' = IF LivePathname \in DOMAIN routes THEN entries
                ELSE ReplaceState(entries, idx, "/").entries
  /\ queue' = Tail(queue)
  /\ invoked' = Append(invoked, "router")
  /\ UNCHANGED << idx, listeners, mounted, isCurrent, routes,
                  rendered, contentRef, pc, evt, signals, linkHref, snapshot >>

\* The dispatch invokes the listener of <Router>.
DeliverRouter ==
  /\ pc = "dispatch"
  /\ queue # << >>
  /\ Head(queue) = "router"
  /\ LET r == RouterHandlePopstate(HistoryState, LivePathname, pathname,
                                   contentRef, focus) IN
       /\ pathname' = r.pathname
       /\ focus' = r.focus
       /\ thrown' = (thrown \/ r.threw)
  /\ queue' = Tail(queue)
  /\ invoked' = Append(invoked, "router")
  /\ UNCHANGED << entries, idx, listeners, mounted, isCurrent, routes,
                  rendered, contentRef, pc, evt, signals, linkHref, snapshot >>

\* A listener of <Link> that compares with the pathname <Router> holds.
DeliverLinkCached(l) ==
  /\ pc = "dispatch"
  /\ queue # << >>
  /\ Head(queue) = l
  /\ l \in Handlers(listeners)
  /\ isCurrent' = [isCurrent EXCEPT
                     ![l] = LinkHandlePopstate(Href(l), pathname)]
  /\ queue' = Tail(queue)
  /\ invoked' = Append(invoked, l)
  /\ UNCHANGED << entries, idx, listeners, mounted, routes, pathname,
                  rendered, contentRef, focus, pc, evt, signals, thrown,
                  linkHref, snapshot >>

\* A listener of <Link> that returns when window.history.state is null.
DeliverLinkGuarded(l) ==
  /\ pc = "dispatch"
  /\ queue # << >>
  /\ Head(queue) = l
  /\ l \in Handlers(listeners)
  /\ isCurrent' = IF HistoryState = "null" THEN isCurrent
                  ELSE [isCurrent EXCEPT
                          ![l] = LinkHandlePopstate(Href(l), LivePathname)]
  /\ queue' = Tail(queue)
  /\ invoked' = Append(invoked, l)
  /\ UNCHANGED << entries, idx, listeners, mounted, routes, pathname,
                  rendered, contentRef, focus, pc, evt, signals, thrown,
                  linkHref, snapshot >>

\* The dispatch invokes the listener of <Link> l.
DeliverLink(l) ==
  /\ pc = "dispatch"
  /\ queue # << >>
  /\ Head(queue) = l
  /\ l \in Handlers(listeners)
  /\ isCurrent' = [isCurrent EXCEPT
                     ![l] = LinkHandlePopstate(Href(l), LivePathname)]
  /\ queue' = Tail(queue)
  /\ invoked' = Append(invoked, l)
  /\ UNCHANGED << entries, idx, listeners, mounted, routes, pathname,
                  rendered, contentRef, focus, pc, evt, signals, thrown,
                  linkHref, snapshot >>

\* The event is over: React re-renders <Router> with its state.
Commit ==
  /\ pc = "dispatch"
  /\ queue = << >>
  /\ rendered' = Resolve(routes, pathname)
  /\ pc' = "idle"
  /\ UNCHANGED << entries, idx, listeners, mounted, isCurrent, routes,
                  pathname, contentRef, focus, queue, evt, signals, thrown,
                  linkHref, snapshot, invoked >>

\* A <Link> mounts: useState initialises isCurrent, the effect of
\* usePopstate registers the listener.
MountLink(l) ==
  /\ pc = "idle"
  /\ l \notin mounted
  /\ mounted' = mounted \cup {l}
  /\ isCurrent' = [isCurrent EXCEPT ![l] = InitIsCurrent(Href(l), LivePathname)]
  /\ listeners' = Append(listeners, l)
  /\ UNCHANGED << entries, idx, routes, pathname, rendered, contentRef, focus,
                  pc, queue, evt, signals, thrown,
                  linkHref, snapshot, invoked >>

\* A <Link> unmounts: the cleanup of the effect removes the listener.
UnmountLink(l) ==
  /\ pc = "idle"
  /\ l \in mounted
  /\ mounted' = mounted \ {l}
  /\ isCurrent' = [isCurrent EXCEPT ![l] = FALSE]
  /\ listeners' = Remove(listeners, l)
  /\ UNCHANGED << entries, idx, routes, pathname, rendered, contentRef, focus,
                  pc, queue, evt, signals, thrown,
                  linkHref, snapshot, invoked >>

\* An effect of usePopstate without the cleanup function.
ChangeHrefNoCleanup(l, p) ==
  /\ pc = "idle"
  /\ l \in mounted
  /\ p # linkHref[l]
  /\ linkHref' = [linkHref EXCEPT ![l] = p]
  /\ listeners' = Append(listeners, l)
  /\ UNCHANGED << entries, idx, mounted, isCurrent, routes, pathname,
                  rendered, contentRef, focus, pc, queue, evt, signals,
                  thrown, snapshot, invoked >>

\* <Link> l is rendered with another href: useCallback returns a new
\* handler, the effect of usePopstate removes the listener of the old
\* handler and registers the new one; the state isCurrent is kept.
ChangeHref(l, p) ==
  /\ pc = "idle"
  /\ l \in mounted
  /\ p # linkHref[l]
  /\ linkHref' = [linkHref EXCEPT ![l] = p]
  /\ listeners' = Append(Remove(listeners, l), l)
  /\ UNCHANGED << entries, idx, mounted, isCurrent, routes, pathname,
                  rendered, contentRef, focus, pc, queue, evt, signals,
                  thrown, snapshot, invoked >>

\* The browser fired the popstate, so React flushes the state updates of
\* a listener before the next listener runs: a <Link> l that the re-render
\* drops (a link inside the route component being replaced) unmounts and
\* the cleanup of its effect removes the listener while the dispatch runs.
FlushUnmountLink(l) ==
  /\ pc = "dispatch"
  /\ evt.kind \in {"back", "forward", "hostload"}
  /\ invoked # << >>
  /\ l \in mounted
  /\ mounted' = mounted \ {l}
  /\ isCurrent' = [isCurrent EXCEPT ![l] = FALSE]
  /\ listeners' = Remove(listeners, l)
  /\ UNCHANGED << entries, idx, routes, pathname, rendered, contentRef, focus,
                  pc, queue, evt, signals, thrown,
                  linkHref, snapshot, invoked >>

\* The dispatch passes over a listener that was removed before its turn.
SkipRemoved ==
  /\ pc = "dispatch"
  /\ queue # << >>
  /\ Head(queue) \notin Handlers(listeners)
  /\ queue' = Tail(queue)
  /\ UNCHANGED << entries, idx, listeners, mounted, isCurrent, routes,
                  pathname, rendered, contentRef, focus, pc, evt, signals,
                  thrown, linkHref, snapshot, invoked >>

\* React clears contentRef.current when the heading of <Page> leaves the
\* document; a heading that had the focus loses it to the body.
PageDetachRef ==
  /\ pc = "idle"
  /\ contentRef = "h1"
  /\ contentRef' = "null"
  /\ focus' = IF focus = "h1" THEN "body" ELSE focus
  /\ UNCHANGED << entries, idx, listeners, mounted, isCurrent, routes,
                  pathname, rendered, pc, queue, evt, signals, thrown,
                  linkHref, snapshot, invoked >>

\* React sets contentRef.current when the heading of <Page> is inserted.
PageAttachRef ==
  /\ pc = "idle"
  /\ contentRef = "null"
  /\ contentRef' = "h1"
  /\ UNCHANGED << entries, idx, listeners, mounted, isCurrent, routes,
                  pathname, rendered, focus, pc, queue, evt, signals, thrown,
                  linkHref, snapshot, invoked >>

Next ==
  \/ \E l \in Links : Click(l)
  \/ Back
  \/ Forward
  \/ HostLoadPopstate
  \/ DeliverRouter
  \/ \E l \in Links : DeliverLink(l)
  \/ Commit
  \/ \E l \in Links : MountLink(l)
  \/ \E l \in Links : UnmountLink(l)
  \/ PageDetachRef
  \/ PageAttachRef

Spec == Init /\ [][Next]_vars

\* The App as App.tsx renders it: both links and the heading stay mounted;
\* the steps are link activations, traversals and their dispatches.
NextApp ==
  \/ \E l \in Links : Click(l)
  \/ Back
  \/ Forward
  \/ HostLoadPopstate
  \/ DeliverRouter
  \/ \E l \in Links : DeliverLink(l)
  \/ Commit

SpecApp == Init /\ [][NextApp]_vars

\* The steps of Next and the unmounts React makes while a dispatch runs.
NextFlush ==
  \/ Next
  \/ \E l \in Links : FlushUnmountLink(l)
  \/ SkipRemoved

SpecFlush == Init /\ [][NextFlush]_vars

\* The steps of the App, the mounts and unmounts of a <Link> and the
\* renders that change its handler.
NextHook ==
  \/ NextApp
  \/ \E l \in Links : MountLink(l)
  \/ \E l \in Links : UnmountLink(l)
  \/ \E l \in Links, p \in LinkTargets : ChangeHref(l, p)

SpecHook == Init /\ [][NextHook]_vars

-----------------------------------------------------------------------------
\* The step in which handleOnClick of a <Link> runs.
ClickStep == pc = "idle" /\ pc' = "dispatch" /\ evt'.kind = "click"

\* The step in which the dispatch invokes the listener of <Router>.
RouterStep == pc = "dispatch" /\ queue # << >> /\ Head(queue) = "router"

\* The listener of <Router> has been invoked by the dispatch for evt.
RouterDone ==
  /\ evt.kind # "load"
  /\ \A k \in 1..Len(queue) : queue[k] # "router"

\* The entry pushState or replaceState writes for pathname p.
Written(p) == [pathname |-> p, state |-> "obj"]

\* C1: activating a link with target p replaces the current entry if and
\* only if p is the live pathname at that moment, and pushes a new entry
\* otherwise; the branch taken from the stored isCurrent is the branch the
\* comparison with the live pathname gives.
C1_ReplaceIffLiveCurrent ==
  [][ClickStep =>
       LET p == Href(evt'.link) IN
         IF p = LivePathname
           THEN /\ evt'.decision = "replace"
                /\ idx' = idx
                /\ entries' = [entries EXCEPT ![idx] = Written(p)]
           ELSE /\ evt'.decision = "push"
                /\ idx' = idx + 1
                /\ entries'[idx'] = Written(p)
                /\ \A k \in 1..idx : entries'[k] = entries[k]]_vars

\* A link was activated on its own page after a traversal took the
\* document back to it: the entry was replaced below a forward entry.
C1_Witness ==
  /\ evt.kind = "click"
  /\ evt.decision = "replace"
  /\ idx < Len(entries)

\* C2: after a link activation exactly one popstate dispatch was made for
\* it and the state of the current history entry is not null, whether the
\* activation pushed or replaced.
C2_OneSignalNonNullMarker ==
  evt.kind = "click" => (signals = 1 /\ HistoryState # "null")

\* The entry the page was loaded with, whose state was null, has been
\* replaced by an activation and the dispatch is over.
C2_Witness ==
  /\ evt.kind = "click"
  /\ evt.decision = "replace"
  /\ pc = "idle"
  /\ Len(entries) = 1

\* C3: after the load and after every processed navigation signal the
\* <Router> renders the entry of the live pathname: its pathname state is
\* window.location.pathname.
C3_RendersLivePathname ==
  pc = "idle" =>
    (pathname = LivePathname /\ rendered = Resolve(routes, LivePathname))

\* C4: a signal processed while window.history.state is null leaves the
\* pathname state of <Router> and the focus as they are; a popstate the
\* browser fires on page load moves neither.
C4_NullMarkerIgnored ==
  /\ [][(RouterStep /\ HistoryState = "null") =>
          (pathname' = pathname /\ focus' = focus)]_vars
  /\ [](evt.kind = "hostload" =>
          (pathname = entries[1].pathname /\ focus = "body"))

\* A back traversal to the entry of the page load was processed by the
\* <Router> while it showed another pathname.
C4_Witness ==
  /\ evt.kind = "back"
  /\ RouterDone
  /\ HistoryState = "null"
  /\ pathname # LivePathname

\* C5: a signal processed while window.history.state is not null and
\* contentRef.current is set makes the pathname state of <Router> the live
\* pathname and moves the focus to the heading contentRef refers to.
C5_NonNullMarkerFocuses ==
  [][(RouterStep /\ HistoryState # "null" /\ contentRef # "null") =>
       (pathname' = LivePathname /\ focus' = contentRef)]_vars

\* An activation that pushed has been processed by the <Router>: the focus
\* went from the link to the heading.
C5_Witness ==
  /\ evt.kind = "click"
  /\ evt.decision = "push"
  /\ RouterDone
  /\ focus = "h1"
  /\ pathname = Href(evt.link)

\* C6: when no dispatch is running, every mounted <Link> has
\* isCurrent = (href = live pathname), from its construction on and after
\* every signal, whatever fired the signal and whatever the state of the
\* current entry is.
C6_IsCurrentMatchesLive ==
  pc = "idle" =>
    \A l \in mounted : isCurrent[l] = (Href(l) = LivePathname)

\* Both links were notified of a back traversal to an entry whose state is
\* null, one of them having been mounted after the <Router>.
C6_Witness ==
  /\ pc = "idle"
  /\ evt.kind = "back"
  /\ HistoryState = "null"
  /\ listeners = << "L2", "router", "L1" >>
  /\ isCurrent["L1"]
  /\ ~isCurrent["L2"]

\* C7: the session history never has two adjacent entries with the same
\* pathname.
C7_NoAdjacentDuplicates ==
  \A k \in 1..(Len(entries) - 1) :
    entries[k].pathname # entries[k + 1].pathname

\* The link of the current page was activated again on the newest of
\* MaxDepth entries.
C7_Witness ==
  /\ evt.kind = "click"
  /\ evt.decision = "replace"
  /\ idx = Len(entries)
  /\ Len(entries) >= 3

\* C8 as stated: an activation of the link of the live pathname leaves
\* history.length as it is, any other activation adds exactly one to it.
C8_DepthPlusOne ==
  [][ClickStep =>
       IF Href(evt'.link) = LivePathname
         THEN Len(entries') = Len(entries)
         ELSE Len(entries') = Len(entries) + 1]_vars

\* C8 amended: an activation of the link of the live pathname leaves the
\* position of the current entry and history.length as they are; any other
\* activation makes the entry after the current one the new current and
\* last entry, so that history.length grows by one exactly when the current
\* entry was the last one.
C8_DepthAfterActivation ==
  [][ClickStep =>
       IF Href(evt'.link) = LivePathname
         THEN idx' = idx /\ Len(entries') = Len(entries)
         ELSE /\ idx' = idx + 1
              /\ Len(entries') = idx + 1
              /\ (Len(entries') = Len(entries) + 1) <=> (idx = Len(entries))]_vars

\* An activation pushed while forward entries existed: history.length did
\* not grow.
C8_Witness ==
  /\ evt.kind = "click"
  /\ evt.decision = "push"
  /\ Len(entries) <= evt.len

\* C9: the entry <Router> renders is the entry of its pathname state when
\* the table has one and the "/" entry when it has none, and is never
\* undefined.
C9_ResolveFallsBackToRoot ==
  pc = "idle" =>
    /\ pathname \in DOMAIN routes => rendered = routes[pathname]
    /\ pathname \notin DOMAIN routes => rendered = routes["/"]
    /\ rendered # Undefined

\* The <Router> was navigated to a pathname its table does not have and
\* rendered the "/" entry.
C9_Witness ==
  /\ pc = "idle"
  /\ evt.kind = "click"
  /\ pathname = Href(evt.link)
  /\ pathname \notin DOMAIN routes
  /\ rendered = [title |-> "Home"]

\* C10: a signal processed while window.history.state is not null and
\* contentRef.current is null makes the listener of <Router> throw, and
\* the focus stays where it is.
C10_MissingFocusTargetThrows ==
  [][(RouterStep /\ HistoryState # "null" /\ contentRef = "null") =>
       (thrown' /\ focus' = focus)]_vars

\* The listener of <Router> threw during the dispatch of an activation and
\* the focus is still on the link.
C10_Witness ==
  /\ evt.kind = "click"
  /\ RouterDone
  /\ thrown
  /\ contentRef = "null"
  /\ focus = "link"

\* The step in which the dispatch invokes a listener.
DeliverStep == pc = "dispatch" /\ invoked' # invoked

\* The listener a DeliverStep invokes.
Delivered == invoked'[Len(invoked')]

\* C11: the history call of a link activation is complete before the
\* dispatch invokes a listener; every listener the dispatch invokes, of a
\* <Link> or of the <Router>, reads the pathname and the state the
\* activation wrote, never the pathname from before.
C11_HandlersReadPostNavigation ==
  /\ [][ClickStep =>
          /\ invoked' = << >>
          /\ LivePathname' = Href(evt'.link)
          /\ HistoryState' = "obj"]_vars
  /\ [][(DeliverStep /\ evt.kind = "click") =>
          /\ LivePathname = Href(evt.link)
          /\ HistoryState = "obj"
          /\ Delivered = "router" => pathname' = Href(evt.link)
          /\ Delivered # "router" =>
               isCurrent'[Delivered] = (Href(Delivered) = Href(evt.link))]_vars

\* The dispatch of an activation that pushed has invoked all three
\* listeners and the activated link reports current.
C11_Witness ==
  /\ evt.kind = "click"
  /\ evt.decision = "push"
  /\ pc = "dispatch"
  /\ queue = << >>
  /\ Len(invoked) = 3
  /\ isCurrent[evt.link]
  /\ pathname = Href(evt.link)

Restrict(s, hs) == SelectSeq(s, LAMBDA h : h \in hs)

\* C13: when a listener is removed while a dispatch runs, the dispatch
\* still gets to its end: a listener removed before its turn is not
\* invoked, every listener that stays registered is invoked, and the
\* listeners invoked are invoked once each, in registration order.
C13_RemovalDuringDispatch ==
  /\ [](evt.kind # "load" => invoked = Restrict(snapshot, Handlers(invoked)))
  /\ [][DeliverStep =>
          /\ Delivered \in Handlers(listeners)
          /\ Delivered \in Links => Delivered \in mounted]_vars
  /\ [][(pc = "dispatch" /\ pc' = "idle") =>
          \A h \in Handlers(snapshot) \cap Handlers(listeners) :
            h \in Handlers(invoked)]_vars

\* A dispatch is over in which the second of three listeners was removed
\* after the first had run: the first and the third were invoked.
C13_Witness ==
  /\ pc = "idle"
  /\ snapshot = << "L1", "L2", "router" >>
  /\ invoked = << "L1", "router" >>
  /\ "L2" \notin mounted

\* The number of times handler x is in list s.
Count(s, x) == Cardinality({ k \in 1..Len(s) : s[k] = x })

\* The number of listeners a component has when it uses the hook once.
Expected(c) == IF c = "router" \/ c \in mounted THEN 1 ELSE 0

\* C14: after any sequence of mounts, unmounts, re-mounts and handler
\* changes a mounted component has exactly one listener registered and an
\* unmounted component has none; a dispatch invokes the handler of a
\* mounted component exactly once and no handler of an unmounted one.
C14_OneListenerPerMounted ==
  /\ [](\A c \in Links \cup {"router"} : Count(listeners, c) = Expected(c))
  /\ [][(pc = "dispatch" /\ pc' = "idle") =>
          \A c \in Links \cup {"router"} : Count(invoked, c) = Expected(c)]_vars

\* <Link> L1 got another href, <Link> L2 was unmounted, and a dispatch
\* invoked the <Router> and the new handler of L1.
C14_Witness ==
  /\ pc = "idle"
  /\ linkHref["L1"] = "/about"
  /\ mounted = {"L1"}
  /\ invoked = << "router", "L1" >>

\* C15: an activation of the link of the current page is handled like any
\* other: it calls replaceState and dispatches once, the <Router>
\* processes a signal with a non-null state and moves the focus to the
\* heading, and its pathname state and history.length stay as they were.
C15_SamePageActivation ==
  /\ [][(ClickStep /\ Href(evt'.link) = LivePathname) =>
          /\ evt'.decision = "replace"
          /\ signals' = 1
          /\ Len(entries') = Len(entries)]_vars
  /\ [][(RouterStep /\ evt.kind = "click" /\ evt.decision = "replace"
           /\ contentRef # "null") =>
          /\ HistoryState # "null"
          /\ focus' = contentRef
          /\ pathname' = pathname
          /\ Len(entries) = evt.len]_vars

\* C16: when the listener of <Router> throws because contentRef.current
\* is null, it has already set its pathname state to the live pathname.
C16_PathnameSetBeforeThrow ==
  [][(RouterStep /\ HistoryState # "null" /\ contentRef = "null") =>
       (thrown' /\ pathname' = LivePathname)]_vars

\* The listener of <Router> threw after it had taken a new pathname, which
\* the <Router> has not rendered yet.
C16_Witness ==
  /\ pc = "dispatch"
  /\ RouterDone
  /\ thrown
  /\ pathname = LivePathname
  /\ pathname \in DOMAIN routes
  /\ rendered # routes[pathname]

\* C17: an error thrown by the listener of <Router> does not end the
\* dispatch: the listeners registered before and after it are all invoked
\* and every mounted <Link> has isCurrent = (href = live pathname) when the
\* dispatch is over.
C17_ErrorDoesNotStopDispatch ==
  [][(pc = "dispatch" /\ pc' = "idle" /\ thrown) =>
       /\ invoked = snapshot
       /\ \A l \in mounted : isCurrent[l] = (Href(l) = LivePathname)]_vars

\* The listener of <Router> threw during the dispatch of an activation of
\* a <Link> registered after it, and that link reports current.
C17_Witness ==
  /\ pc = "idle"
  /\ thrown
  /\ evt.kind = "click"
  /\ evt.link = "L1"
  /\ invoked = << "L2", "router", "L1" >>
  /\ isCurrent["L1"]
  /\ ~isCurrent["L2"]

\* C18: while a dispatch runs no listener changes the session history or
\* dispatches again: the entries, the current index and the number of
\* dispatches stay as they are, and the dispatch invokes no more listeners
\* than were registered when it began.
C18_HandlersOnlyRead ==
  [][pc = "dispatch" =>
       /\ entries' = entries
       /\ idx' = idx
       /\ signals' = signals
       /\ snapshot' = snapshot
       /\ Len(invoked') <= Len(snapshot)]_vars

\* A back traversal to the middle one of three entries has been processed
\* by all three listeners.
C18_Witness ==
  /\ pc = "idle"
  /\ evt.kind = "back"
  /\ Len(invoked) = 3
  /\ Len(entries) = 3
  /\ idx = 2
  /\ signals = 1

=============================================================================
